---- MODULE Spec2Model ----
(***************************************************************************)
(* A model of purr's routing core: Route construction, Router.register,    *)
(* Router.__call__ (dispatch) and HTTPResponse.__call__ (the response      *)
(* protocol adapter).                                                      *)
(*                                                                         *)
(* Python str values that the code inspects character by character (path   *)
(* templates, request paths, method names, regex sources, query strings,   *)
(* annotation keys) are sequences of one-character strings.  Texts that    *)
(* are only built and compared (response bodies, scope types) are TLA+     *)
(* strings.  A str is the record [t |-> "str", s |-> text] and a bytes      *)
(* object the record [t |-> "bytes", s |-> text] wherever the code tells   *)
(* the two apart.                                                          *)
(***************************************************************************)
EXTENDS Integers, Sequences, FiniteSets, TLC

(***************************************************************************)
(* Bounds of the model.                                                    *)
(***************************************************************************)
\* the number of register calls in a behaviour
MaxRegs == 1
\* the number of dispatches (requests) in a behaviour
MaxDispatch == 1

(***************************************************************************)
(* Characters and str helpers.                                             *)
(***************************************************************************)
UpperCase == <<"A","B","C","D","E","F","G","H","I","J","K","L","M",
               "N","O","P","Q","R","S","T","U","V","W","X","Y","Z">>
LowerCase == <<"a","b","c","d","e","f","g","h","i","j","k","l","m",
               "n","o","p","q","r","s","t","u","v","w","x","y","z">>
Digits == {"0","1","2","3","4","5","6","7","8","9"}
Letters == {UpperCase[i] : i \in 1..26} \cup {LowerCase[i] : i \in 1..26}

\* the character class [a-zA-Z_] that starts a parameter name in PATH_REGEX
IdentStart == Letters \cup {"_"}
\* the character class [a-zA-Z\d_] of PATH_REGEX, also [a-zA-Z_0-9]
WordChars == Letters \cup Digits \cup {"_"}

\* str.lower() on one character
LowerChar(c) ==
    IF \E i \in 1..26 : UpperCase[i] = c
    THEN LowerCase[CHOOSE i \in 1..26 : UpperCase[i] = c]
    ELSE c

\* str.lower()
lower(s) == [i \in 1..Len(s) |-> LowerChar(s[i])]

\* s[i:] with i a 1-based index
From(s, i) == SubSeq(s, i, Len(s))

\* s.startswith(p, i) with i a 1-based index
StartsAt(s, i, p) ==
    /\ i + Len(p) - 1 <= Len(s)
    /\ SubSeq(s, i, i + Len(p) - 1) = p

\* str.replace(old, new): every non-overlapping occurrence, left to right
RECURSIVE replace(_, _, _)
replace(s, old, new) ==
    IF s = <<>> \/ old = <<>> THEN s
    ELSE IF StartsAt(s, 1, old)
         THEN new \o replace(From(s, Len(old) + 1), old, new)
         ELSE <<s[1]>> \o replace(Tail(s), old, new)

\* str.split(sep) for a one-character separator
RECURSIVE split(_, _)
split(s, sep) ==
    IF \A i \in 1..Len(s) : s[i] # sep THEN <<s>>
    ELSE LET k == CHOOSE i \in 1..Len(s) :
                      s[i] = sep /\ \A j \in 1..(i - 1) : s[j] # sep
         IN  <<SubSeq(s, 1, k - 1)>> \o split(From(s, k + 1), sep)

(***************************************************************************)
(* A Python dict is a sequence of <<key, value>> pairs with distinct keys, *)
(* in insertion order.                                                     *)
(***************************************************************************)
DictHas(d, k) == \E i \in 1..Len(d) : d[i][1] = k
DictIndex(d, k) == CHOOSE i \in 1..Len(d) : d[i][1] = k
DictGet(d, k) == d[DictIndex(d, k)][2]
\* an assignment that moves a present key to the last position
DictSet_MoveToEnd(d, k, v) ==
    Append(SelectSeq(d, LAMBDA e : e[1] # k), <<k, v>>)
\* d[k] = v : a present key keeps its position, a new key goes last
DictSet(d, k, v) ==
    IF DictHas(d, k)
    THEN [d EXCEPT ![DictIndex(d, k)] = <<k, v>>]
    ELSE Append(d, <<k, v>>)
DictValues(d) == [i \in 1..Len(d) |-> d[i][2]]

(***************************************************************************)
(* routing/router.py : METHODS, PATH_REGEX, get_path_params,               *)
(* compile_path_regex.                                                     *)
(***************************************************************************)
METHODS == { <<"g","e","t">>, <<"p","o","s","t">>,
             <<"d","e","l","e","t","e">>, <<"p","u","t">>,
             <<"h","e","a","d">>, <<"c","o","n","n","e","c","t">>,
             <<"o","p","t","i","o","n","s">>, <<"t","r","a","c","e">>,
             <<"p","a","t","c","h">> }

\* the last index of the longest run of WordChars of s that starts at i
RECURSIVE WordRunEnd(_, _)
WordRunEnd(s, i) ==
    IF i + 1 <= Len(s) /\ s[i + 1] \in WordChars
    THEN WordRunEnd(s, i + 1)
    ELSE i

\* PATH_REGEX matches at index i of path: "{", a name, "}"
PATH_REGEX_at(path, i) ==
    /\ i + 2 <= Len(path)
    /\ path[i] = "{"
    /\ path[i + 1] \in IdentStart
    /\ WordRunEnd(path, i + 1) + 1 <= Len(path)
    /\ path[WordRunEnd(path, i + 1) + 1] = "}"

\* PATH_REGEX.finditer(path) from index i on, each match stripped of its
\* braces (match.group()[1:-1])
RECURSIVE PathParamsFrom(_, _)
PathParamsFrom(path, i) ==
    IF i > Len(path) THEN <<>>
    ELSE IF PATH_REGEX_at(path, i)
         THEN LET e == WordRunEnd(path, i + 1)
              IN  <<SubSeq(path, i + 1, e)>> \o PathParamsFrom(path, e + 2)
         ELSE PathParamsFrom(path, i + 1)

get_path_params(path) == PathParamsFrom(path, 1)

\* the text rf"(?P<{param}>[a-zA-Z_0-9]+)"
GroupOpen == <<"(","?","P","<">>
GroupClose == <<">","[","a","-","z","A","-","Z","_","0","-","9","]","+",")">>
GroupText(param) == GroupOpen \o param \o GroupClose

\* the loop of compile_path_regex over path_params[k..]
RECURSIVE ReplaceParams(_, _, _)
ReplaceParams(pattern, path_params, k) ==
    IF k > Len(path_params) THEN pattern
    ELSE ReplaceParams(
             replace(pattern, <<"{">> \o path_params[k] \o <<"}">>,
                     GroupText(path_params[k])),
             path_params, k + 1)

\* the source text of the compiled regex; a compiled Pattern is identified
\* by its source text (patterns with equal sources are equal and hash alike)
compile_path_regex(path, path_params, method) ==
    ReplaceParams(method \o <<"_">> \o path, path_params, 1)

(***************************************************************************)
(* re : the regexes compile_path_regex can produce are sequences of        *)
(* literal characters, "." and named groups over [a-zA-Z_0-9]+.            *)
(***************************************************************************)
\* the index of the ">" that ends the group name opened at index i
RECURSIVE NameEnd(_, _)
NameEnd(src, i) ==
    IF i > Len(src) \/ src[i] = ">" THEN i ELSE NameEnd(src, i + 1)

\* the regex source from index i on as tokens: [k |-> "group", v |-> name],
\* [k |-> "any", v |-> <<>>] for ".", [k |-> "lit", v |-> <<c>>] otherwise
RECURSIVE Tokens(_, _)
Tokens(src, i) ==
    IF i > Len(src) THEN <<>>
    ELSE IF StartsAt(src, i, GroupOpen)
              /\ StartsAt(src, NameEnd(src, i + 4), GroupClose)
         THEN LET e == NameEnd(src, i + 4)
              IN  <<[k |-> "group", v |-> SubSeq(src, i + 4, e - 1)]>>
                    \o Tokens(src, e + Len(GroupClose))
         ELSE IF src[i] = "."
              THEN <<[k |-> "any", v |-> <<>>]>> \o Tokens(src, i + 1)
              ELSE <<[k |-> "lit", v |-> <<src[i]>>]>> \o Tokens(src, i + 1)

NoMatch == [ok |-> FALSE, groups |-> <<>>]

\* backtracking match of toks[t..] against s[i..]; a group takes the longest
\* run of word characters the rest of the pattern allows (greedy "+")
RECURSIVE MatchAt(_, _, _, _)
RECURSIVE MatchGroup(_, _, _, _, _)
MatchAt(toks, t, s, i) ==
    IF t > Len(toks) THEN [ok |-> TRUE, groups |-> <<>>]
    ELSE IF toks[t].k = "group"
         THEN IF i <= Len(s) /\ s[i] \in WordChars
              THEN MatchGroup(toks, t, s, i, WordRunEnd(s, i))
              ELSE NoMatch
         ELSE IF /\ i <= Len(s)
                 /\ \/ toks[t].k = "any"
                    \/ toks[t].v = <<s[i]>>
              THEN MatchAt(toks, t + 1, s, i + 1)
              ELSE NoMatch
\* the group toks[t] takes s[i..e], or less when the rest fails after e
MatchGroup(toks, t, s, i, e) ==
    IF e < i THEN NoMatch
    ELSE LET rest == MatchAt(toks, t + 1, s, e + 1)
         IN  IF rest.ok
             THEN [ok |-> TRUE,
                   groups |-> <<<<toks[t].v, SubSeq(s, i, e)>>>> \o rest.groups]
             ELSE MatchGroup(toks, t, s, i, e - 1)

\* Pattern.match(string): anchored at the start of string, not at its end;
\* .groups is match.groupdict()
PatternMatch(pattern, string) == MatchAt(Tokens(pattern, 1), 1, string, 1)

(***************************************************************************)
(* urllib.parse.parse_qs as router.py uses it: default arguments, a bytes  *)
(* query string.  The model's query strings hold no "%" and no "+", so     *)
(* unquoting leaves every name and value as it is.                         *)
(***************************************************************************)
Bytes(s) == [t |-> "bytes", s |-> s]
Str(s) == [t |-> "str", s |-> s]
\* str.encode("utf-8") of ASCII text: the same octets, as a bytes object
encode(v) == Bytes(v.s)
\* bytes.decode() of ASCII octets: the same characters, as a str
decode(v) == Str(v.s)

\* name_value.split("=", 1)
SplitFirstEq(nv) ==
    IF \A i \in 1..Len(nv) : nv[i] # "=" THEN <<nv>>
    ELSE LET k == CHOOSE i \in 1..Len(nv) :
                      nv[i] = "=" /\ \A j \in 1..(i - 1) : nv[j] # "="
         IN  <<SubSeq(nv, 1, k - 1), From(nv, k + 1)>>

\* parse_qsl: the (name, value) pairs of the fields pairs[k..]; a field
\* without "=" or with a blank value is dropped (keep_blank_values=False,
\* strict_parsing=False)
RECURSIVE parse_qsl(_, _)
parse_qsl(pairs, k) ==
    IF k > Len(pairs) THEN <<>>
    ELSE LET nv == SplitFirstEq(pairs[k])
         IN  IF Len(nv) = 2 /\ Len(nv[2]) > 0
             THEN <<nv>> \o parse_qsl(pairs, k + 1)
             ELSE parse_qsl(pairs, k + 1)

\* parse_qs: a dict from each name (bytes) to the list of its values
\* (bytes) in order of appearance
RECURSIVE CollectQs(_, _, _)
CollectQs(nvs, k, d) ==
    IF k > Len(nvs) THEN d
    ELSE LET name == Bytes(nvs[k][1])
             value == Bytes(nvs[k][2])
         IN  CollectQs(nvs, k + 1,
                 IF DictHas(d, name)
                 THEN DictSet(d, name, Append(DictGet(d, name), value))
                 ELSE DictSet(d, name, <<value>>))

parse_qs(qs) ==
    IF qs.s = <<>> THEN <<>>
    ELSE CollectQs(parse_qsl(split(qs.s, "&"), 1), 1, <<>>)

\* {k.decode(): v[0] for k, v in parse_qs(query_string).items()}
QueryParams(query_string) ==
    LET d == parse_qs(query_string)
    IN  [i \in 1..Len(d) |-> <<decode(d[i][1]), d[i][2][1]>>]

(***************************************************************************)
(* http/headers.py and http/responses.py                                   *)
(***************************************************************************)
\* the attributes class Headers defines
HeadersAttrs == {"__init__", "_list", "__getitem__", "__setitem__", "keys",
                 "values", "items", "get", "getlist", "__contains__",
                 "__eq__", "__len__", "__iter__"}

\* Headers(values) for a list of pairs (or the items of a mapping)
Headers(values) == [_list |-> values]
\* headers[key] = value appends
Headers_setitem(h, key, value) == [_list |-> Append(h._list, <<key, value>>)]

NoHeaders == Headers(<<>>)
NoContentType == "None"

\* HTTPResponse(body, status_code=, headers=, content_type=); headers or
\* Headers({}) : an empty Headers is falsy (its __len__ is 0)
HTTPResponse(body, status_code, headers, content_type) ==
    LET h0 == IF Len(headers._list) = 0 THEN Headers(<<>>) ELSE headers
    IN  [body |-> IF body.t = "str" THEN encode(body) ELSE body,
         status_code |-> status_code,
         headers |-> IF content_type # NoContentType
                     THEN Headers_setitem(h0, "Content-Type", content_type)
                     ELSE h0]

NoResponse == [body |-> Bytes(""), status_code |-> 0, headers |-> NoHeaders]

\* the protocol messages of HTTPResponse.__call__
StartMessage(r) ==
    [type |-> "http.response.start", status |-> r.status_code,
     headers |-> r.headers._list, body |-> Bytes("")]
BodyMessage(r) ==
    [type |-> "http.response.body", status |-> 0, headers |-> <<>>,
     body |-> r.body]

\* await response(scope, receive, send) in the dispatch whose record is st.
\* Building the start message evaluates self.headers.raw(); Headers has no
\* attribute "raw", so the lookup raises AttributeError before the first
\* send and the exception leaves the dispatch.
HTTPResponse_call(st, r) ==
    IF "raw" \in HeadersAttrs
    THEN [st EXCEPT !.response = r, !.pc = "done",
                    !.sent = st.sent \o <<StartMessage(r), BodyMessage(r)>>]
    ELSE [st EXCEPT !.response = r, !.pc = "raised",
                    !.exc = "AttributeError"]

(***************************************************************************)
(* Handlers: the application's functions given to register.                *)
(*   h1, h2 : async def h( *args, **kwargs )                               *)
(*   h3     : async def h3(x: int)                                         *)
(*   h4     : async def h4(id: int)                                        *)
(*   hs     : def hs( *args, **kwargs ), not a coroutine function         *)
(***************************************************************************)
HandlerDef ==
    [h1 |-> [isasync |-> TRUE, annotations |-> <<>>, params |-> <<>>,
             varargs |-> TRUE, varkw |-> TRUE],
     h2 |-> [isasync |-> TRUE, annotations |-> <<>>, params |-> <<>>,
             varargs |-> TRUE, varkw |-> TRUE],
     h3 |-> [isasync |-> TRUE, annotations |-> << <<"x">> >>,
             params |-> << <<"x">> >>,
             varargs |-> FALSE, varkw |-> FALSE],
     h4 |-> [isasync |-> TRUE, annotations |-> << <<"i","d">> >>,
             params |-> << <<"i","d">> >>,
             varargs |-> FALSE, varkw |-> FALSE],
     hs |-> [isasync |-> FALSE, annotations |-> <<>>, params |-> <<>>,
             varargs |-> TRUE, varkw |-> TRUE]]
Handlers == DOMAIN HandlerDef

\* inspect.iscoroutinefunction(handler)
iscoroutinefunction(h) == HandlerDef[h].isasync

\* the response a handler's body returns
HandlerResult(h) ==
    IF h = "h2"
    THEN HTTPResponse(Str("created by " \o h), 201, NoHeaders, "text/plain")
    ELSE HTTPResponse(Str("Hi from " \o h), 200, NoHeaders, NoContentType)

\* Python's binding of the call's args and kwargs to the signature: FALSE is
\* the TypeError of a call that does not fit it
Binds(h, args, kwargs) ==
    LET def == HandlerDef[h]
        np == Len(def.params)
        bound == {def.params[i] : i \in 1..(IF Len(args) < np THEN Len(args) ELSE np)}
        named == {kwargs[i][1].s : i \in 1..Len(kwargs)}
    IN  /\ Len(args) <= np \/ def.varargs
        /\ \A n \in named :
              \/ n \in {def.params[i] : i \in 1..np} \ bound
              \/ def.varkw /\ n \notin {def.params[i] : i \in 1..np}
        /\ \A i \in 1..np : def.params[i] \in bound \cup named

(***************************************************************************)
(* routing/router.py : parse_params, Route                                 *)
(***************************************************************************)
\* parse_obj_as(create_model(name), v): create_model(name) is a model class
\* without fields, and a str or bytes value is a valid instance of a model
\* class only when dict(v) succeeds, which is when v is empty
parse_obj_as_model(name, v) == v.s = <<>>

\* parse_params(query_params, path_params, types): ok is FALSE when pydantic
\* raises ValidationError, msg is e.errors()[0]["msg"]
parse_params(query_params, path_params, types) ==
    LET TypeOf(k) == IF DictHas(types, k) THEN DictGet(types, k) ELSE "Any"
        bad == {i \in 1..Len(query_params) :
                    ~parse_obj_as_model(TypeOf(query_params[i][1]), query_params[i][2])}
               \cup
               {i \in 1..Len(path_params) :
                    ~parse_obj_as_model(TypeOf(path_params[i][1]), path_params[i][2])}
    IN  IF bad = {}
        THEN [ok |-> TRUE, q |-> query_params, p |-> path_params, msg |-> ""]
        ELSE [ok |-> FALSE, q |-> <<>>, p |-> <<>>,
              msg |-> "value is not a valid dict"]

\* Route(path, handler, method): err names the exception of a failed
\* construction
NoRoute(err) ==
    [err |-> err, path |-> <<>>, handler |-> "", method |-> <<>>,
     path_params |-> <<>>, path_regex |-> <<>>]

\* Route without the test of the handler
Route_AnyHandler(path, handler, method) ==
    IF lower(method) \notin METHODS THEN NoRoute("AttributeError")
    ELSE LET params == get_path_params(path)
         IN  IF \E i, j \in 1..Len(params) : i # j /\ params[i] = params[j]
             THEN NoRoute("re.error")
             ELSE [err |-> "none", path |-> path, handler |-> handler,
                   method |-> lower(method), path_params |-> params,
                   path_regex |-> compile_path_regex(path, params, method)]

\* Route that stores the method as given
Route_MethodAsGiven(path, handler, method) ==
    IF ~iscoroutinefunction(handler) THEN NoRoute("AttributeError")
    ELSE IF lower(method) \notin METHODS THEN NoRoute("AttributeError")
    ELSE LET params == get_path_params(path)
         IN  IF \E i, j \in 1..Len(params) : i # j /\ params[i] = params[j]
             THEN NoRoute("re.error")
             ELSE [err |-> "none", path |-> path, handler |-> handler,
                   method |-> method, path_params |-> params,
                   path_regex |-> compile_path_regex(path, params, method)]

Route(path, handler, method) ==
    IF ~iscoroutinefunction(handler) THEN NoRoute("AttributeError")
    ELSE IF lower(method) \notin METHODS THEN NoRoute("AttributeError")
    ELSE LET params == get_path_params(path)
         IN  IF \E i, j \in 1..Len(params) : i # j /\ params[i] = params[j]
             THEN NoRoute("re.error")   \* redefinition of a group name
             ELSE [err |-> "none", path |-> path, handler |-> handler,
                   method |-> lower(method), path_params |-> params,
                   path_regex |-> compile_path_regex(path, params, method)]

\* Route.__eq__
Route_eq(r1, r2) == r1.path = r2.path /\ r1.method = r2.method

(***************************************************************************)
(* routing/router.py : Router                                              *)
(***************************************************************************)
\* register that leaves an entry already in the table as it is
register_KeepFirst(rts, path, handler, method) ==
    LET route == Route(path, handler, method)
    IN  IF route.err # "none"
        THEN [err |-> route.err, routes |-> rts]
        ELSE [err |-> "none",
              routes |-> IF DictHas(rts, route.path_regex) THEN rts
                         ELSE Append(rts, <<route.path_regex, route>>)]

\* Router.register on the route table rts: err names the exception the
\* call raises, routes is the table after the call
register(rts, path, handler, method) ==
    LET route == Route(path, handler, method)
    IN  IF route.err # "none"
        THEN [err |-> route.err, routes |-> rts]
        ELSE [err |-> "none", routes |-> DictSet(rts, route.path_regex, route)]

\* Router(app, routes): {route.path_regex: route for route in routes}, from
\* entry k of the sequence on
RECURSIVE Router_init(_, _, _)
Router_init(rs, k, d) ==
    IF k > Len(rs) THEN d
    ELSE Router_init(rs, k + 1, DictSet(d, rs[k].path_regex, rs[k]))

\* a scan that keeps the last matching entry instead of the first
RECURSIVE FirstMatch_Last(_, _, _)
FirstMatch_Last(rts, path, k) ==
    IF k > Len(rts) THEN 0
    ELSE LET later == FirstMatch_Last(rts, path, k + 1)
         IN  IF later # 0 THEN later
             ELSE IF PatternMatch(rts[k][1], path).ok THEN k ELSE 0

\* the loop "for pattern, route in self.routes.items()": the index of the
\* first entry from k on whose pattern.match(path) succeeds, 0 when the
\* table is exhausted
RECURSIVE FirstMatch(_, _, _)
FirstMatch(rts, path, k) ==
    IF k > Len(rts) THEN 0
    ELSE IF PatternMatch(rts[k][1], path).ok THEN k
         ELSE FirstMatch(rts, path, k + 1)

\* {k: str(v) for k, v in route.handler.__annotations__}: iterating the
\* dict yields its keys, and each key (a str) is unpacked into k, v
RECURSIVE HandlerAnnotations(_, _, _)
HandlerAnnotations(keys, i, d) ==
    IF i > Len(keys) THEN d
    ELSE HandlerAnnotations(keys, i + 1,
             DictSet(d, Str(<<keys[i][1]>>), <<keys[i][2]>>))

\* the record of a dispatch: pc is the position of the coroutine, scope the
\* request's scope, route the local variable route, calls the handler
\* invocations made, response the response object built, sent the messages
\* given to send, exc the exception that left the dispatch, tried the number
\* of patterns tested
NoScope == [type |-> "", method |-> <<>>, path |-> <<>>,
            query_string |-> Bytes(<<>>), router |-> "absent"]
IdleDispatch ==
    [pc |-> "idle", scope |-> NoScope, route |-> NoRoute("none"),
     calls |-> <<>>, response |-> NoResponse, sent |-> <<>>,
     exc |-> "none", tried |-> 0]

Raise(st, exc) == [st EXCEPT !.pc = "raised", !.exc = exc]

\* the body of the "if match:" branch for the matched route, from the
\* method test to the call of the handler
RouteMatched(st, route, match) ==
    LET scope == st.scope
        h == route.handler
        path_params == [i \in 1..Len(match.groups) |->
                          <<Str(match.groups[i][1]), Str(match.groups[i][2])>>]
        query_params == QueryParams(scope.query_string)
        keys == HandlerDef[h].annotations
        Invoke(q, p) ==
            IF Binds(h, DictValues(p), q)
            THEN [st EXCEPT !.pc = "handler", !.route = route,
                     !.calls = Append(st.calls,
                                  [handler |-> h, args |-> DictValues(p),
                                   kwargs |-> q])]
            ELSE Raise([st EXCEPT !.route = route], "TypeError")
    IN  IF lower(scope.method) # route.method
        THEN HTTPResponse_call([st EXCEPT !.route = route],
                 HTTPResponse(Str("Method not allowed"), 405,
                              NoHeaders, NoContentType))
        ELSE IF keys # <<>>
        THEN IF \E i \in 1..Len(keys) : Len(keys[i]) # 2
             THEN Raise([st EXCEPT !.route = route], "ValueError")
             ELSE LET parsed == parse_params(query_params, path_params,
                                    HandlerAnnotations(keys, 1, <<>>))
                  IN  IF ~parsed.ok
                      THEN HTTPResponse_call([st EXCEPT !.route = route],
                               HTTPResponse(
                                   Str("Bad request, failed to parse parameters: "
                                       \o parsed.msg),
                                   400, NoHeaders, NoContentType))
                      ELSE Invoke(parsed.q, parsed.p)
        ELSE Invoke(query_params, path_params)

\* Router.__call__ that sets scope["router"] whether or not the key is there
Router_call_AlwaysAttach(rts, scope) ==
    LET st0 == [IdleDispatch EXCEPT !.scope = scope]
    IN  IF scope.type \notin {"http", "websocket"}
        THEN HTTPResponse_call(st0,
                 HTTPResponse(Str("Invalid request type " \o scope.type), 400,
                              NoHeaders, NoContentType))
        ELSE LET st1 == [st0 EXCEPT !.scope.router = "self"]
                 m == FirstMatch(rts, scope.path, 1)
             IN  IF m = 0
                 THEN HTTPResponse_call([st1 EXCEPT !.tried = Len(rts)],
                          HTTPResponse(Str("URL not found"), 404,
                                       NoHeaders, NoContentType))
                 ELSE RouteMatched([st1 EXCEPT !.tried = m], rts[m][2],
                                   PatternMatch(rts[m][1], scope.path))

\* Router.__call__(scope, receive, send) on the route table rts, up to its
\* first suspension in the handler or to its end
Router_call(rts, scope) ==
    LET st0 == [IdleDispatch EXCEPT !.scope = scope]
    IN  IF scope.type \notin {"http", "websocket"}
        THEN HTTPResponse_call(st0,
                 HTTPResponse(Str("Invalid request type " \o scope.type), 400,
                              NoHeaders, NoContentType))
        ELSE LET st1 == IF scope.router = "absent"
                        THEN [st0 EXCEPT !.scope.router = "self"]
                        ELSE st0
                 m == FirstMatch(rts, scope.path, 1)
             IN  IF m = 0
                 THEN HTTPResponse_call([st1 EXCEPT !.tried = Len(rts)],
                          HTTPResponse(Str("URL not found"), 404,
                                       NoHeaders, NoContentType))
                 ELSE RouteMatched([st1 EXCEPT !.tried = m], rts[m][2],
                                   PatternMatch(rts[m][1], scope.path))

\* the rest of Router.__call__ once the awaited handler finishes: it returns
\* its response, raises pydantic's ValidationError or raises anything else
HandlerOutcomes == {"return", "ValidationError", "Exception"}
AfterHandler(st, outcome) ==
    IF outcome = "return"
    THEN HTTPResponse_call(st, HandlerResult(st.route.handler))
    ELSE IF outcome = "ValidationError"
    THEN HTTPResponse_call(st,
             HTTPResponse(Str("Missing required query parameters"), 422,
                          NoHeaders, NoContentType))
    ELSE Raise(st, outcome)

(***************************************************************************)
(* The inputs: register calls and requests.                                *)
(***************************************************************************)
get == <<"g","e","t">>
GET == <<"G","E","T">>
post == <<"p","o","s","t">>
foo == <<"f","o","o">>

\* path templates given to register: "/a", "/{x}" and "/{x}{x}"
Templates == { <<"/","a">>, <<"/","{","x","}">>,
               <<"/","{","x","}","{","x","}">> }
\* the register calls: h1 and h2 with "/a" and "/{x}", h1 with an upper-case
\* method, with an illegal method and with a template that repeats a
\* placeholder, the annotated handlers, and the handler that is not a
\* coroutine function
RegCalls ==
    ({<<"/","a">>, <<"/","{","x","}">>} \X {"h1", "h2"} \X {get})
    \cup (Templates \X {"h1"} \X {get})
    \cup ({<<"/","a">>} \X {"h1"} \X {GET, foo})
    \cup ({<<"/","{","x","}">>} \X {"h3"} \X {get})
    \cup ({<<"/","a">>} \X {"h4", "hs"} \X {get})

\* request paths: "/a", "get_/a", "GET_/a", "get_/ab"
RequestPaths == { <<"/","a">>, get \o <<"_","/","a">>, GET \o <<"_","/","a">>,
                  get \o <<"_","/","a","b">> }
\* query strings: b"" and b"q=1&q=2"
QueryStrings == { Bytes(<<>>), Bytes(<<"q","=","1","&","q","=","2">>) }

\* the requests: each path with the method GET, two paths with the method
\* post, one request with a query string, one websocket request whose scope
\* already has the key "router", and one request of an unsupported type
Requests ==
    [type : {"http"}, method : {GET}, path : RequestPaths,
     query_string : {Bytes(<<>>)}, router : {"absent"}]
    \cup
    [type : {"http"}, method : {post},
     path : { <<"/","a">>, get \o <<"_","/","a">> },
     query_string : {Bytes(<<>>)}, router : {"absent"}]
    \cup
    [type : {"http"}, method : {GET}, path : {get \o <<"_","/","a">>},
     query_string : QueryStrings, router : {"absent"}]
    \cup
    [type : {"websocket"}, method : {GET}, path : {get \o <<"_","/","a">>},
     query_string : {Bytes(<<>>)}, router : {"other"}]
    \cup
    [type : {"grpc"}, method : {GET}, path : {get \o <<"_","/","a">>},
     query_string : {Bytes(<<>>)}, router : {"absent"}]

(***************************************************************************)
(* The state machine.                                                      *)
(***************************************************************************)
VARIABLES
    routes,     \* Router.routes : the dict from compiled pattern to Route
    disp,       \* the dispatches, idle until their request arrives
    nregs,      \* the number of register calls made
    lastCall,   \* the arguments of the latest register call and the
                \* exception it raised, "none" if it returned
    regLog      \* history: for each (path, method) given to the constructor
                \* or to register, the handler of the latest registration,
                \* whether a later call replaced h1 by h2, and the rank of
                \* its first registration among the first registrations of
                \* all of them (0 if none)

vars == <<routes, disp, nregs, lastCall, regLog>>

RegKeys == {<<call[1], call[3]>> : call \in RegCalls}

\* the sequences of routes given to the constructor: none, or
\* [Route("/a", h1), Route("/{x}", h2)]
InitialRoutes ==
    { <<>>,
      << Route(<<"/","a">>, "h1", get), Route(<<"/","{","x","}">>, "h2", get) >> }

NoCall == [path |-> <<>>, handler |-> "", method |-> <<>>, err |-> "none"]

\* Router(app, routes) : the route table built from the given routes
Init ==
    /\ \E rs \in InitialRoutes :
          /\ routes = Router_init(rs, 1, <<>>)
          /\ regLog = [k \in RegKeys |->
                 IF \E i \in 1..Len(rs) : k = <<rs[i].path, rs[i].method>>
                 THEN LET i == CHOOSE i \in 1..Len(rs) :
                                   k = <<rs[i].path, rs[i].method>>
                      IN  [handler |-> rs[i].handler, renewed |-> FALSE,
                           first |-> i]
                 ELSE [handler |-> "", renewed |-> FALSE, first |-> 0]]
    /\ disp = [d \in 1..MaxDispatch |-> IdleDispatch]
    /\ nregs = 0
    /\ lastCall = NoCall

\* a register that also rebinds the route of the dispatches in flight to the
\* entry the table now holds for their pattern
Register_Rebinding(path, handler, method) ==
    /\ nregs < MaxRegs
    /\ LET r == register(routes, path, handler, method)
       IN  /\ routes' = r.routes
           /\ lastCall' = [path |-> path, handler |-> handler,
                           method |-> method, err |-> r.err]
           /\ regLog' =
                  IF r.err = "none"
                  THEN [regLog EXCEPT ![<<path, method>>] =
                           [handler |-> handler,
                            renewed |-> \/ @.renewed
                                        \/ @.handler = "h1" /\ handler = "h2",
                            first |-> IF @.first = 0
                                      THEN 1 + Cardinality(
                                               {j \in RegKeys : regLog[j].first > 0})
                                      ELSE @.first]]
                  ELSE regLog
           /\ disp' = [d \in 1..MaxDispatch |->
                         IF /\ disp[d].pc = "handler"
                            /\ DictHas(r.routes, disp[d].route.path_regex)
                         THEN [disp[d] EXCEPT !.route =
                                  DictGet(r.routes, disp[d].route.path_regex)]
                         ELSE disp[d]]
    /\ nregs' = nregs + 1

\* router.register(path, handler, method)
Register(path, handler, method) ==
    /\ nregs < MaxRegs
    /\ LET r == register(routes, path, handler, method)
       IN  /\ routes' = r.routes
           /\ lastCall' = [path |-> path, handler |-> handler,
                           method |-> method, err |-> r.err]
           /\ regLog' =
                  IF r.err = "none"
                  THEN [regLog EXCEPT ![<<path, method>>] =
                           [handler |-> handler,
                            renewed |-> \/ @.renewed
                                        \/ @.handler = "h1" /\ handler = "h2",
                            first |-> IF @.first = 0
                                      THEN 1 + Cardinality(
                                               {j \in RegKeys : regLog[j].first > 0})
                                      ELSE @.first]]
                  ELSE regLog
    /\ nregs' = nregs + 1
    /\ UNCHANGED disp

\* the server calls the router with a request; the call runs to the
\* suspension in the handler or to its end
Dispatch(d, scope) ==
    /\ disp[d].pc = "idle"
    /\ \A e \in 1..(d - 1) : disp[e].pc # "idle"
    /\ disp' = [disp EXCEPT ![d] = Router_call(routes, scope)]
    /\ UNCHANGED <<routes, nregs, lastCall, regLog>>

\* the awaited handler of dispatch d finishes and the dispatch runs to its end
HandlerReturn(d, outcome) ==
    /\ disp[d].pc = "handler"
    /\ disp' = [disp EXCEPT ![d] = AfterHandler(disp[d], outcome)]
    /\ UNCHANGED <<routes, nregs, lastCall, regLog>>

Next ==
    \/ \E call \in RegCalls : Register(call[1], call[2], call[3])
    \/ \E d \in 1..MaxDispatch, scope \in Requests : Dispatch(d, scope)
    \/ \E d \in 1..MaxDispatch, outcome \in HandlerOutcomes :
           HandlerReturn(d, outcome)

Spec == Init /\ [][Next]_vars

TypeOK ==
    /\ nregs \in 0..MaxRegs
    /\ \A d \in 1..MaxDispatch :
          disp[d].pc \in {"idle", "handler", "done", "raised"}
(***************************************************************************)
(* Vocabulary of the properties.                                           *)
(***************************************************************************)
Dispatches == 1..MaxDispatch

\* a step that is a call of register
RegisterStep == nregs' = nregs + 1

\* the step in which dispatch d receives its request and scans the table
DispatchStep(d) == disp[d].pc = "idle" /\ disp'[d].pc # "idle"

\* the step in which the handler awaited by dispatch d finishes
HandlerStep(d) == disp[d].pc = "handler" /\ disp'[d].pc # "handler"

\* path[j..] fits template[i..]: literal characters verbatim, each
\* placeholder filled with one or more characters of [A-Za-z0-9_]
RECURSIVE Fits(_, _, _, _)
Fits(template, i, path, j) ==
    IF i > Len(template) THEN j > Len(path)
    ELSE IF PATH_REGEX_at(template, i)
         THEN \E e \in j..Len(path) :
                  /\ \A k \in j..e : path[k] \in WordChars
                  /\ Fits(template, WordRunEnd(template, i + 1) + 2, path, e + 1)
         ELSE /\ j <= Len(path)
              /\ path[j] = template[i]
              /\ Fits(template, i + 1, path, j + 1)

\* the entries of table rts whose route has the request's method and a
\* template the request's path fits
FittingRoutes(rts, scope) ==
    {i \in 1..Len(rts) :
        /\ rts[i][2].method = lower(scope.method)
        /\ Fits(rts[i][2].path, 1, scope.path, 1)}

\* the entries of table rts whose compiled pattern matches the path as
\* dispatch tests it
MatchingEntries(rts, path) ==
    {i \in 1..Len(rts) : PatternMatch(rts[i][1], path).ok}

\* dispatch record st returned normally after sending exactly one response
\* with the given status and body text and no headers
Yields(st, status, text) ==
    /\ st.pc = "done"
    /\ st.sent = << [type |-> "http.response.start", status |-> status,
                     headers |-> <<>>, body |-> Bytes("")],
                    [type |-> "http.response.body", status |-> 0,
                     headers |-> <<>>, body |-> Bytes(text)] >>

\* route was registered by a call register(k[1], _, k[2])
RegisteredAs(pattern, route, k) ==
    /\ route.path = k[1]
    /\ StartsAt(pattern, 1, k[2] \o <<"_">>)

\* the (path, method) with which entry i of the route table was registered
KeyOf(i) == CHOOSE k \in RegKeys : RegisteredAs(routes[i][1], routes[i][2], k)

(***************************************************************************)
(* C1: a request whose method and path fit a registered route leads to     *)
(* exactly one invocation, of the handler of a fitting route, with the     *)
(* path parameter values as positional and the query parameters as keyword *)
(* arguments, and the handler's returned response is then sent.            *)
(***************************************************************************)
C1_MatchingRequestInvokesHandler ==
    [][\A d \in Dispatches :
          /\ ( /\ DispatchStep(d)
               /\ disp'[d].scope.type = "http"
               /\ FittingRoutes(routes, disp'[d].scope) # {} )
             => /\ Len(disp'[d].calls) = 1
                /\ \E i \in FittingRoutes(routes, disp'[d].scope) :
                       disp'[d].calls[1].handler = routes[i][2].handler
                /\ disp'[d].calls[1].kwargs
                       = QueryParams(disp'[d].scope.query_string)
          /\ ( /\ HandlerStep(d)
               /\ disp'[d].response = HandlerResult(disp[d].route.handler) )
             => /\ disp'[d].pc = "done"
                /\ disp'[d].sent
                       = << StartMessage(disp'[d].response),
                            BodyMessage(disp'[d].response) >>
      ]_vars

(***************************************************************************)
(* C2: an http or websocket request that matches no registered route       *)
(* invokes no handler and yields status 404 with body "URL not found".     *)
(***************************************************************************)
C2_NoMatchYields404 ==
    [][\A d \in Dispatches :
          ( /\ DispatchStep(d)
            /\ disp'[d].scope.type \in {"http", "websocket"}
            /\ MatchingEntries(routes, disp'[d].scope.path) = {} )
          => /\ disp'[d].calls = <<>>
             /\ Yields(disp'[d], 404, "URL not found")
      ]_vars

(***************************************************************************)
(* C3: a request whose scope type is neither "http" nor "websocket" yields *)
(* status 400 with body "Invalid request type {type}", tries no route and  *)
(* invokes no handler.                                                     *)
(***************************************************************************)
C3_UnsupportedTypeYields400 ==
    \A d \in Dispatches :
        ( /\ disp[d].pc # "idle"
          /\ disp[d].scope.type \notin {"http", "websocket"} )
        => /\ disp[d].tried = 0
           /\ disp[d].calls = <<>>
           /\ Yields(disp[d], 400,
                     "Invalid request type " \o disp[d].scope.type)

(***************************************************************************)
(* C4: once a (path, method) has been registered again, the table holds a  *)
(* single entry for it, bound to the handler of the latest registration,   *)
(* and a dispatch that selects this entry invokes no other handler.        *)
(***************************************************************************)
TableHoldsLatest ==
    \A k \in RegKeys :
        regLog[k].first > 0 =>
            LET E == {i \in 1..Len(routes) :
                         RegisteredAs(routes[i][1], routes[i][2], k)}
            IN  /\ Cardinality(E) = 1
                /\ \A i \in E : routes[i][2].handler = regLog[k].handler

C4_ReRegistrationReplaces ==
    [][/\ RegisterStep => TableHoldsLatest'
       /\ \A d \in Dispatches :
             DispatchStep(d) =>
                 \A c \in 1..Len(disp'[d].calls) :
                     \A k \in RegKeys :
                         RegisteredAs(disp'[d].route.path_regex,
                                      disp'[d].route, k)
                         => disp'[d].calls[c].handler = regLog[k].handler
      ]_vars

\* a (path, method) registered with h1 and then with h2, and a dispatch
\* that selected the re-registered route and invoked h2
C4_Witness ==
    \E k \in RegKeys, d \in Dispatches :
        /\ regLog[k].renewed
        /\ regLog[k].handler = "h2"
        /\ disp[d].calls # <<>>
        /\ RegisteredAs(disp[d].route.path_regex, disp[d].route, k)
        /\ disp[d].calls[1].handler = "h2"

(***************************************************************************)
(* C5: when several entries of the route table match a request, dispatch   *)
(* selects the one whose pattern was registered first, stops the scan      *)
(* there, and invokes the handler of no other route.                       *)
(***************************************************************************)
C5_FirstRegisteredWins ==
    [][\A d \in Dispatches :
          ( /\ DispatchStep(d)
            /\ disp'[d].scope.type \in {"http", "websocket"} )
          => LET M == MatchingEntries(routes, disp'[d].scope.path)
             IN  M # {} =>
                 \E i \in M :
                     /\ \A j \in M :
                            regLog[KeyOf(i)].first <= regLog[KeyOf(j)].first
                     /\ disp'[d].route = routes[i][2]
                     /\ disp'[d].tried
                           = Cardinality({j \in 1..Len(routes) :
                                regLog[KeyOf(j)].first <= regLog[KeyOf(i)].first})
                     /\ Len(disp'[d].calls) <= 1
                     /\ \A c \in 1..Len(disp'[d].calls) :
                            disp'[d].calls[c].handler = routes[i][2].handler
      ]_vars

\* two entries with different handlers match the request of a dispatch that
\* invoked the handler of the first one
C5_Witness ==
    \E d \in Dispatches :
        LET M == MatchingEntries(routes, disp[d].scope.path)
        IN  /\ disp[d].pc = "handler"
            /\ Cardinality(M) >= 2
            /\ \E i, j \in M :
                  /\ i < j
                  /\ routes[i][2].handler # routes[j][2].handler
                  /\ disp[d].route = routes[i][2]
                  /\ disp[d].calls[1].handler = routes[i][2].handler

(***************************************************************************)
(* C6: sending a response emits exactly two messages, the start message    *)
(* with the status code and the headers, then the body message.            *)
(***************************************************************************)
C6_ResponseSendsStartThenBody ==
    \A d \in Dispatches :
        disp[d].response # NoResponse =>
            disp[d].sent = << StartMessage(disp[d].response),
                              BodyMessage(disp[d].response) >>

(***************************************************************************)
(* C7: on an unsupported scope type, no matching route, a method mismatch, *)
(* a parameter coercion failure or a missing required parameter, dispatch  *)
(* returns normally after sending exactly one start and one body message.  *)
(***************************************************************************)
C7_RecoverableConditionsSendOneResponse ==
    \A d \in Dispatches :
        ( \/ disp[d].response.status_code \in {400, 404, 405, 422}
          \/ disp[d].exc \in {"TypeError", "ValueError"} )
        => /\ disp[d].pc = "done"
           /\ Len(disp[d].sent) = 2
           /\ disp[d].sent[1].type = "http.response.start"
           /\ disp[d].sent[1].status = disp[d].response.status_code
           /\ disp[d].sent[2].type = "http.response.body"

(***************************************************************************)
(* C8: register fails when the handler is not an asynchronous callable or  *)
(* the case-folded method is not in METHODS, and a failed register leaves  *)
(* the route table as it was.                                              *)
(***************************************************************************)
C8_InvalidRegisterFails ==
    [][RegisterStep =>
          /\ ( \/ ~iscoroutinefunction(lastCall'.handler)
               \/ lower(lastCall'.method) \notin METHODS )
             => lastCall'.err # "none"
          /\ lastCall'.err # "none" => routes' = routes
      ]_vars

\* a register call has just failed on a table that holds a route
C8_Witness ==
    /\ lastCall.err = "AttributeError"
    /\ routes # <<>>

(***************************************************************************)
(* C9: constructing a Route with an asynchronous handler and a legal       *)
(* method succeeds and stores the given handler; every route in the table  *)
(* has an asynchronous handler and a lower-case method of METHODS.         *)
(***************************************************************************)
RoutesWellFormed ==
    \A i \in 1..Len(routes) :
        /\ iscoroutinefunction(routes[i][2].handler)
        /\ routes[i][2].method \in METHODS
        /\ routes[i][2].method = lower(routes[i][2].method)

\* the table holds the route of the latest register call, with the handler
\* as given
Stored ==
    \E i \in 1..Len(routes) :
        /\ routes[i][2].path = lastCall.path
        /\ routes[i][2].handler = lastCall.handler
        /\ routes[i][2].method = lower(lastCall.method)

DistinctPlaceholders(path) ==
    LET params == get_path_params(path)
    IN  \A i, j \in 1..Len(params) : params[i] = params[j] => i = j

C10_WrongMethodYields405Or404 ==
    [][\A d \in Dispatches :
          ( /\ DispatchStep(d)
            /\ disp'[d].scope.type = "http"
            /\ \E i \in 1..Len(routes) :
                  /\ Fits(routes[i][2].path, 1, disp'[d].scope.path, 1)
                  /\ routes[i][2].method # lower(disp'[d].scope.method)
            /\ FittingRoutes(routes, disp'[d].scope) = {} )
          => /\ disp'[d].calls = <<>>
             /\ \/ Yields(disp'[d], 405, "Method not allowed")
                \/ Yields(disp'[d], 404, "URL not found")
      ]_vars

(***************************************************************************)
(* C11: for a matched route whose handler is invoked, the keyword          *)
(* arguments are one per distinct key of the query string, each key bound  *)
(* to the text (a str) of the value of its first occurrence.               *)
(***************************************************************************)
\* the fields name=value of a query string, in order, as (name, value)
QueryFields(query_string) ==
    IF query_string.s = <<>> THEN <<>>
    ELSE LET fs == split(query_string.s, "&")
         IN  [i \in 1..Len(fs) |-> SplitFirstEq(fs[i])]

\* the bindings the handler is to receive: key -> "value of first occurrence"
FirstOccurrences(query_string) ==
    LET fs == QueryFields(query_string)
    IN  { <<Str(fs[i][1]), Str(fs[i][2])>> :
            i \in {j \in 1..Len(fs) :
                     /\ Len(fs[j]) = 2
                     /\ \A e \in 1..(j - 1) : fs[e][1] # fs[j][1]} }

C11_QueryBindsFirstOccurrence ==
    [][\A d \in Dispatches :
          ( /\ DispatchStep(d)
            /\ disp'[d].calls # <<>> )
          => LET kw == disp'[d].calls[1].kwargs
                 want == FirstOccurrences(disp'[d].scope.query_string)
             IN  /\ {kw[i] : i \in 1..Len(kw)} = want
                 /\ Len(kw) = Cardinality(want)
      ]_vars

(***************************************************************************)
(* C12: when the matched route's handler has annotated parameters and the  *)
(* value of an annotated path or query parameter cannot be coerced to the  *)
(* annotated type, dispatch invokes no handler and yields status 400 with  *)
(* body "Bad request, failed to parse parameters: {message}".              *)
(***************************************************************************)
\* text is not the decimal notation of an int (the annotated parameters of
\* h3 and h4 are of type int)
NotAnInt(text) == text = <<>> \/ \E i \in 1..Len(text) : text[i] \notin Digits

\* dispatch record st selected a route for its request's method whose
\* handler annotates a parameter that the request gives a value no int can
\* be made of
Uncoercible(st) ==
    LET h == st.route.handler
        names == {HandlerDef[h].annotations[i] :
                     i \in 1..Len(HandlerDef[h].annotations)}
        groups == PatternMatch(st.route.path_regex, st.scope.path).groups
        fields == QueryFields(st.scope.query_string)
    IN  /\ st.route.err = "none" /\ h \in Handlers
        /\ lower(st.scope.method) = st.route.method
        /\ \/ \E i \in 1..Len(groups) :
                  groups[i][1] \in names /\ NotAnInt(groups[i][2])
           \/ \E i \in 1..Len(fields) :
                  /\ Len(fields[i]) = 2
                  /\ fields[i][1] \in names /\ NotAnInt(fields[i][2])

C12_CoercionFailureYields400 ==
    \A d \in Dispatches :
        ( /\ disp[d].pc # "idle"
          /\ disp[d].route.handler \in Handlers
          /\ Uncoercible(disp[d]) )
        => /\ disp[d].calls = <<>>
           /\ \E msg \in {"value is not a valid integer",
                          "value is not a valid dict"} :
                  Yields(disp[d], 400,
                         "Bad request, failed to parse parameters: " \o msg)

(***************************************************************************)
(* C13: when the invocation of the matched route's handler raises a        *)
(* parameter-validation failure, as when a required parameter is absent    *)
(* from the request, dispatch yields status 422 with body "Missing         *)
(* required query parameters" and returns normally.                        *)
(***************************************************************************)
\* dispatch record st selected a route for its request's method whose
\* handler requires a parameter the request gives no value for
RequiredAbsent(st) ==
    LET h == st.route.handler
        groups == PatternMatch(st.route.path_regex, st.scope.path).groups
        fields == QueryFields(st.scope.query_string)
        given == {fields[i][1] : i \in {j \in 1..Len(fields) : Len(fields[j]) = 2}}
    IN  /\ st.route.err = "none" /\ h \in Handlers
        /\ lower(st.scope.method) = st.route.method
        /\ \E i \in 1..Len(HandlerDef[h].params) :
              /\ i > Len(groups)
              /\ HandlerDef[h].params[i] \notin given

C13_ValidationFailureYields422 ==
    [][\A d \in Dispatches :
          /\ ( /\ DispatchStep(d)
               /\ RequiredAbsent(disp'[d])
               /\ ~Uncoercible(disp'[d]) )
             => Yields(disp'[d], 422, "Missing required query parameters")
          /\ ( /\ HandlerStep(d)
               /\ disp'[d].response.status_code = 422 )
             => Yields(disp'[d], 422, "Missing required query parameters")
      ]_vars

(***************************************************************************)
(* C14: a route whose template has no placeholders is matched only by a    *)
(* request path that is exactly the template (here also granted: the       *)
(* template behind the method prefix the compiled pattern carries); a path *)
(* that merely starts with it, or differs in a character, is not matched.  *)
(***************************************************************************)
C14_LiteralTemplateMatchesExactly ==
    [][\A d \in Dispatches :
          ( /\ DispatchStep(d)
            /\ disp'[d].scope.type \in {"http", "websocket"} )
          => \A i \in MatchingEntries(routes, disp'[d].scope.path) :
                 routes[i][2].path_params = <<>>
                 => \/ disp'[d].scope.path = routes[i][2].path
                    \/ disp'[d].scope.path = routes[i][1]
      ]_vars

(***************************************************************************)
(* C15: dispatching an http or websocket request leaves scope["router"]    *)
(* the dispatching router when the key was absent and at its previous      *)
(* value when it was present; dispatching a request of another type leaves *)
(* the scope as it was; the rest of the dispatch changes the scope no more.*)
(***************************************************************************)
\* the scope a request is to have once it has been dispatched
ScopeAfter(req) ==
    IF req.type \in {"http", "websocket"} /\ req.router = "absent"
    THEN [req EXCEPT !.router = "self"]
    ELSE req

C15_RouterKeySetOnlyIfAbsent ==
    [][\A d \in Dispatches :
          /\ DispatchStep(d) =>
                 \E req \in Requests :
                     /\ [req EXCEPT !.router = "any"]
                            = [disp'[d].scope EXCEPT !.router = "any"]
                     /\ disp'[d].scope = ScopeAfter(req)
          /\ HandlerStep(d) => disp'[d].scope = disp[d].scope
      ]_vars

\* a websocket request whose scope came with the key "router" was dispatched
\* to a handler, and the handler has finished
C15_Witness ==
    \E d \in Dispatches :
        /\ disp[d].pc \in {"done", "raised"}
        /\ disp[d].calls # <<>>
        /\ disp[d].scope.type = "websocket"
        /\ disp[d].scope.router = "other"

(***************************************************************************)
(* C16: whenever the compiled pattern of a route matches a request, the    *)
(* route's method is the request's method, case-insensitively; no dispatch *)
(* ever builds the 405 response.                                           *)
(***************************************************************************)
C16_MethodMismatchUnreachable ==
    \A d \in Dispatches :
        /\ disp[d].response.status_code # 405
        /\ ( /\ disp[d].pc # "idle"
             /\ disp[d].route.err = "none"
             /\ disp[d].route.handler \in Handlers )
           => disp[d].route.method = lower(disp[d].scope.method)

(***************************************************************************)
(* C17: however in-flight dispatches interleave, a step of one dispatch    *)
(* leaves the others as they are, a handler is invoked with the parameters *)
(* of its own request, and the send channel of a request receives the      *)
(* start and then the body message of the response computed for it, and    *)
(* nothing else.                                                           *)
(***************************************************************************)
\* the channel and the invocations of dispatch record st hold what belongs
\* to its own request only
OwnTraffic(st) ==
    /\ st.pc = "handler" => st.sent = <<>>
    /\ st.response # NoResponse
          => st.sent = << StartMessage(st.response), BodyMessage(st.response) >>
    /\ \A c \in 1..Len(st.calls) :
          /\ st.calls[c].kwargs = QueryParams(st.scope.query_string)
          /\ LET groups == PatternMatch(st.route.path_regex, st.scope.path).groups
             IN  st.calls[c].args = [i \in 1..Len(groups) |-> Str(groups[i][2])]

C18_NoEqualRoutes ==
    \A i, j \in 1..Len(routes) :
        Route_eq(routes[i][2], routes[j][2]) => i = j

(***************************************************************************)
(* C19: registering an already registered (method, path) again replaces    *)
(* the handler and leaves every pattern at its position; the table, and so *)
(* the order in which dispatch tries the patterns, is in the order of the  *)
(* patterns' first registrations.                                          *)
(***************************************************************************)
\* the patterns of the route table, in the order dispatch tries them
PatternsOf(rts) == [i \in 1..Len(rts) |-> rts[i][1]]

\* entry i of the table was the i-th pattern to be registered
InFirstRegistrationOrder ==
    \A i \in 1..Len(routes) : regLog[KeyOf(i)].first = i

C19_ReRegistrationKeepsPosition ==
    [][/\ RegisterStep =>
            /\ InFirstRegistrationOrder'
            /\ ( /\ lastCall'.err = "none"
                 /\ regLog[<<lastCall'.path, lastCall'.method>>].first > 0 )
               => /\ PatternsOf(routes') = PatternsOf(routes)
                  /\ routes'[regLog[<<lastCall'.path, lastCall'.method>>].first][2].handler
                         = lastCall'.handler
       /\ \A d \in Dispatches :
             ( /\ DispatchStep(d)
               /\ disp'[d].route.handler \in Handlers )
             => /\ disp'[d].tried <= Len(routes)
                /\ disp'[d].route = routes[disp'[d].tried][2]
                /\ disp'[d].tried = regLog[KeyOf(disp'[d].tried)].first
      ]_vars

\* the pattern registered first was registered again with another handler
\* while a later pattern is in the table, and a dispatch whose request both
\* patterns match tried the first pattern only and invoked the new handler
C19_Witness ==
    \E d \in Dispatches :
        /\ Len(routes) >= 2
        /\ regLog[KeyOf(1)].renewed
        /\ routes[1][2].handler = "h2"
        /\ MatchingEntries(routes, disp[d].scope.path) = {1, 2}
        /\ disp[d].tried = 1
        /\ disp[d].calls # <<>>
        /\ disp[d].calls[1].handler = "h2"

(***************************************************************************)
(* C20: a dispatch decides on its route, handler or error response against *)
(* the route table as it is when the dispatch starts and never resumes the *)
(* scan; a register call at a suspension point of a dispatch in flight     *)
(* changes neither the handler it invoked nor the response it goes on to   *)
(* produce.                                                                *)
(***************************************************************************)
\* the response of the finished dispatch record st is the one its own
\* invoked handler returned, or the 422 response, or none if the handler
\* raised another exception
ResponseOfInvokedHandler(st) ==
    \/ st.response = HandlerResult(st.calls[1].handler)
    \/ st.response = HTTPResponse(Str("Missing required query parameters"),
                                  422, NoHeaders, NoContentType)
    \/ st.response = NoResponse /\ st.exc = "Exception"

C20_DecisionTakenAtDispatchStart ==
    [][/\ RegisterStep => disp' = disp
       /\ \A d \in Dispatches :
             /\ DispatchStep(d) =>
                    /\ routes' = routes
                    /\ disp'[d].route.handler \in Handlers
                           => disp'[d].route = routes[disp'[d].tried][2]
                    /\ \A c \in 1..Len(disp'[d].calls) :
                           disp'[d].calls[c].handler
                               = routes[disp'[d].tried][2].handler
             /\ HandlerStep(d) =>
                    /\ disp'[d].route = disp[d].route
                    /\ disp'[d].calls = disp[d].calls
                    /\ disp'[d].tried = disp[d].tried
                    /\ ResponseOfInvokedHandler(disp'[d])
             /\ disp[d].pc # "idle" => disp'[d].tried = disp[d].tried
      ]_vars

\* a dispatch awaits the handler h1 it invoked while the table, changed by
\* a register call since, binds the pattern of its route to h2
C20_Witness ==
    \E d \in Dispatches :
        /\ disp[d].pc = "handler"
        /\ disp[d].calls[1].handler = "h1"
        /\ disp[d].route.handler = "h1"
        /\ DictHas(routes, disp[d].route.path_regex)
        /\ DictGet(routes, disp[d].route.path_regex).handler = "h2"

====
